---- MODULE Spec2Model ----
(***************************************************************************)
(* Model of the connection and command-dispatch layer of mcp-server-tauri: *)
(* the PluginClient of packages/mcp-server/src/driver/plugin-client.ts,    *)
(* and, in a second specification (SessionSpec), the session coordinator   *)
(* of driver/session-manager.ts with the AppDiscovery registry of          *)
(* driver/app-discovery.ts.                                                *)
(*                                                                         *)
(* One PluginClient is modelled together with every WebSocket it creates.  *)
(* The handlers that connect() registers on a socket are closures over the *)
(* client (this._ws, this._reconnectAttempts, this._pendingRequests) and   *)
(* over the resolve/reject pair of the connect() call that created the     *)
(* socket, so every socket keeps its handlers after the client has moved   *)
(* on to another socket.                                                   *)
(***************************************************************************)
EXTENDS Integers, Sequences, FiniteSets, TLC

(***************************************************************************)
(* Bounds of the model.                                                    *)
(***************************************************************************)
MaxCalls == 2        \* sendCommand calls that get as far as sending
MaxLive == 1         \* connections under way at the same time: sockets that
                     \* have not emitted 'close' and reconnects that are scheduled
MaxPorts == 3        \* ports a discovery scan probes (AppDiscovery._maxPorts is 100)
MaxClients == 2      \* PluginClient objects in use at the same time in SessionSpec

(***************************************************************************)
(* Program constants.                                                      *)
(***************************************************************************)
maxReconnectAttempts == 5
ReconnectStepMs == 1000
DefaultTimeoutMs == 5000

\* the timeouts callers pass: the default, and a longer one
TimeoutChoices == {DefaultTimeoutMs, 7000}

VARIABLES
    ws,                 \* this._ws: 0 is null, otherwise the index of a socket
    reconnectAttempts,  \* this._reconnectAttempts
    pendingRequests,    \* this._pendingRequests: request id -> index of the call
    sockets,            \* the WebSockets created by connect(), by slot; the slot
                        \* of a socket that emitted 'close' is used again
    calls,              \* the promise of every sendCommand call that passed the
                        \* connection check: "pending" or "settled"
    requestTimers,      \* the armed request timers: request id -> timeoutMs
    reconnectTimers,    \* delays of the reconnect timers that have not fired yet
    errorListener,      \* whether the client has a listener for 'error'
    crashed,            \* an exception left a handler uncaught
    scheduled,          \* history: delays of reconnects scheduled since the last open
    disconnected,       \* history: disconnect() was called and connect() not since
    last                \* history: the promise the last step settled, and how

\* The state of session-manager.ts, of its AppDiscovery and of the clients
\* they create.
VARIABLES
    env,                \* process.env: the three variables config.ts reads
    appDiscovery,       \* host of the module's AppDiscovery, "null" before the first
    activeSessions,     \* appDiscovery._activeSessions: the SessionInfo records
    clients,            \* the PluginClient objects in use, by slot
    pluginClient,       \* the singleton of plugin-client.ts: 0 is null, else a slot
    currentSession,     \* the module's currentSession
    running,            \* the call in progress and the point it has reached
    result,             \* history: what the call that returned in the last step returned
    overtaken           \* the start() that awaits connect() while another call runs

sessionVars == <<env, appDiscovery, activeSessions, clients, pluginClient,
                 currentSession, running, result, overtaken>>

\* the variables of the single PluginClient of Spec, crashed excepted
pluginVars == <<ws, reconnectAttempts, pendingRequests, sockets, calls, requestTimers,
                reconnectTimers, errorListener, scheduled, disconnected, last>>

vars == <<ws, reconnectAttempts, pendingRequests, sockets, calls,
          requestTimers, reconnectTimers, errorListener, crashed, scheduled, disconnected, last,
          env, appDiscovery, activeSessions, clients, pluginClient,
          currentSession, running, result, overtaken>>

clientVars == <<ws, reconnectAttempts, pendingRequests, sockets, calls,
                requestTimers, reconnectTimers>>

(***************************************************************************)
(* Values.                                                                 *)
(***************************************************************************)
NullMsg == [id |-> 0, success |-> FALSE, data |-> "", error |-> ""]

\* The outcome of a promise: op is "sendCommand", "connect" (a connect() that
\* settled at once) or "handshake" (a connect() settled by its socket); call
\* is the index of the sendCommand call (0: it settled at once); the promise
\* is resolved with value (parsed from the payload raw) or rejected with reason.
Outcome(op, call, status, value, raw, reason) ==
    [op |-> op, call |-> call, status |-> status, value |-> value, raw |-> raw,
     reason |-> reason]

Resolved(op, call, value, raw) == Outcome(op, call, "resolved", value, raw, "")

Rejected(op, call, reason) == Outcome(op, call, "rejected", NullMsg, <<>>, reason)

\* an emit that hands the listener no message
EmittedEmpty(value, raw, listening) ==
    Outcome("event", 0, IF listening THEN "heard" ELSE "dropped", NullMsg, raw, "")

\* emit('event', value) was called in the last step: a registered listener
\* was called with value ("heard"), or there was none ("dropped")
Emitted(value, raw, listening) ==
    Outcome("event", 0, IF listening THEN "heard" ELSE "dropped", value, raw, "")

\* a catch that hands the text it could not read to the listeners of 'event'
DiscardedAloud(raw) == Outcome("event", 0, "heard", NullMsg, raw, "")

\* the message handler ran in the last step and the catch discarded the text
Discarded(raw) == Outcome("message", 0, "discarded", NullMsg, raw, "")

\* the last step settled no promise of a call and emitted nothing
NoReturn == Outcome("", 0, "", NullMsg, <<>>, "")

\* readyState of a ws WebSocket.  A socket whose handshake was aborted by
\* close(), and a socket that emitted 'error', report CLOSING until 'close'.
ReadyState(sock) ==
    CASE sock.state = "CONNECTING" -> "CONNECTING"
      [] sock.state = "OPEN" -> "OPEN"
      [] sock.state = "CLOSED" -> "CLOSED"
      [] OTHER -> "CLOSING"

\* the places a socket can be in; one more than MaxLive, so that a socket
\* made by connect() on an open client has a place at every bound
Slots == 1..(MaxLive + 1)

\* a slot that holds no socket: none yet, or one that has emitted 'close'
NoSocket == [state |-> "CLOSED", promise |-> "none", failed |-> FALSE]

Live == {s \in Slots : sockets[s].state # "CLOSED"}

Free == Slots \ Live

FreeSlot == CHOOSE s \in Free : \A f \in Free : s <= f

\* new WebSocket(this._url) with the four handlers of one connect() call;
\* promise is the promise that connect() call returned
NewSocket == [state |-> "CONNECTING", promise |-> "pending", failed |-> FALSE]

(***************************************************************************)
(* Wire format.  An inbound payload is text; JSON.parse turns it into a    *)
(* message or throws.  A payload is modelled as the tuple of the fields    *)
(* the text carries; the id 0 stands for an absent or falsy id, and the id  *)
(* of a request that is not made yet or is settled is one the map does not *)
(* hold.                                                                   *)
(***************************************************************************)
Malformed == <<"malformed">>

\* the text null: JSON.parse returns null, which has no properties
JsonNull == <<"null">>

Payloads ==
    {Malformed, JsonNull} \cup
    {<<"object", i, TRUE, "data", "">> : i \in 0..MaxCalls} \cup
    {<<"object", i, FALSE, "", "command failed">> : i \in 1..MaxCalls}

Parses(payload) == payload # Malformed

\* reading message.id does not throw
HasProperties(payload) == payload # JsonNull

JSONparse(payload) ==
    [id |-> payload[2], success |-> payload[3], data |-> payload[4],
     error |-> payload[5]]

(***************************************************************************)
(* Promise settlement: resolve and reject act only on a pending promise.   *)
(* Map.delete and clearTimeout remove a key when it is there.              *)
(***************************************************************************)
Settle(promise, outcome) == IF promise = "pending" THEN outcome ELSE promise

\* a delete that leaves the entry in the map
MapKeep(map, id) == map

MapDelete(map, id) == [k \in (DOMAIN map) \ {id} |-> map[k]]

\* this._pendingRequests.set(id, entry)
MapSet(map, id, entry) ==
    [k \in (DOMAIN map) \cup {id} |-> IF k = id THEN entry ELSE map[k]]

(***************************************************************************)
(* Values of the session layer.                                            *)
(***************************************************************************)
\* getDefaultPort() when MCP_BRIDGE_PORT is unset
BasePort == 9223

\* a port number no URL can be built with: new WebSocket(url) throws
InvalidPort == 70000

\* an argument that was not passed
NoPort == 0
NoHost == "undefined"

Hosts == {"localhost", "127.0.0.1", "10.0.0.5"}
\* the hosts callers pass; passing "localhost" is start() with no host
HostArgs == {NoHost, "127.0.0.1", "10.0.0.5"}

\* the ports callers pass
PortArgs == {NoPort, InvalidPort}

\* A variable of process.env is undefined or a text.  The text of
\* MCP_BRIDGE_PORT is a sequence of characters; Unset is that variable when it
\* is not set, as NoHost is for the two host variables.
Unset == <<"undefined">>

\* the values of MCP_BRIDGE_PORT the session layer runs with
EnvPorts == {Unset, <<"9", "2", "2", "4">>}

\* process.env as the session layer starts with it
SessionEnvs ==
    [MCP_BRIDGE_HOST : {NoHost}, TAURI_DEV_HOST : {NoHost}, MCP_BRIDGE_PORT : EnvPorts]

DigitOf ==
    [ch \in {"0", "1", "2", "3", "4", "5", "6", "7", "8", "9"} |->
        CASE ch = "0" -> 0 [] ch = "1" -> 1 [] ch = "2" -> 2 [] ch = "3" -> 3
          [] ch = "4" -> 4 [] ch = "5" -> 5 [] ch = "6" -> 6 [] ch = "7" -> 7
          [] ch = "8" -> 8 [] ch = "9" -> 9]

\* what parseInt returns for a text with no number at its start; no text of
\* the lengths drawn here parses to this number
NaN == -1000000

\* parseInt skips the white space a text begins with
RECURSIVE TrimStart(_)
TrimStart(text) ==
    IF text # <<>> /\ Head(text) = " " THEN TrimStart(Tail(text)) ELSE text

\* the length of the longest prefix of text made of decimal digits
RECURSIVE DigitPrefix(_)
DigitPrefix(text) ==
    IF text # <<>> /\ Head(text) \in DOMAIN DigitOf THEN 1 + DigitPrefix(Tail(text)) ELSE 0

\* the number the first n characters of text, all digits, denote in base 10
RECURSIVE Decimal(_, _)
Decimal(text, n) ==
    IF n = 0 THEN 0 ELSE 10 * Decimal(text, n - 1) + DigitOf[text[n]]

\* parseInt(text, 10): white space, a sign, then the longest run of digits;
\* what follows the digits is ignored, and no digit at all gives NaN
parseInt(text) ==
    LET trimmed == TrimStart(text)
        signed == trimmed # <<>> /\ Head(trimmed) \in {"+", "-"}
        digits == IF signed THEN Tail(trimmed) ELSE trimmed
        n == DigitPrefix(digits)
    IN IF n = 0 THEN NaN
       ELSE IF signed /\ Head(trimmed) = "-" THEN 0 - Decimal(digits, n)
       ELSE Decimal(digits, n)

\* What a new socket meets at its endpoint: "live" completes the handshake,
\* "refused" makes the socket emit 'error', "silent" accepts the connection and
\* never answers.
Kinds == {"live", "refused", "silent"}

ClientIds == 1..MaxClients

\* A PluginClient: ws is the state of this._ws ("none" is null, otherwise
\* "open" or, while connecting, what the socket meets), timer says that a
\* reconnect timer is waiting, attempts is this._reconnectAttempts.  stopped
\* is a mark of history the code does not keep: stop() has released the
\* client.
Client(host, port, wsState, timer, attempts) ==
    [host |-> host, port |-> port, ws |-> wsState, timer |-> timer, attempts |-> attempts,
     stopped |-> FALSE]

\* a slot that holds no client
NoClient == Client("", 0, "none", FALSE, 0)

\* the socket of the client is connecting
Connecting(client) == client.ws \in Kinds

\* name of a session: `Tauri App (${targetHost}:${port})`
AppName(host, port) == <<"Tauri App", host, port>>

\* the record tryConnect returns; client is the slot of session.client
Session(host, port, client) ==
    [name |-> AppName(host, port), host |-> host, port |-> port, client |-> client]

NoSession == [name |-> <<>>, host |-> "", port |-> 0, client |-> 0]

\* The call in progress.  kind is "none", "start", "stop", "discover" or
\* "connectPlugin"; phase is "run" (the step is about to run), "wait" (awaiting
\* connect() of the client in slot wait) or "probe" (awaiting the probe of
\* the port base + offset, whose socket meets probe); apps is the list
\* discoverApps has built so far, met what its probes met, tried the
\* endpoints start() tried so far.
Call(kind, host, port, explicit, step, phase, wait, base, offset, probe, apps, met, tried) ==
    [kind |-> kind, host |-> host, port |-> port, explicit |-> explicit, step |-> step,
     phase |-> phase, wait |-> wait, base |-> base, offset |-> offset, probe |-> probe,
     apps |-> apps, met |-> met, tried |-> tried]

Idle == Call("none", "", 0, FALSE, 0, "", 0, 0, 0, "", <<>>, <<>>, <<>>)

\* What a call returned: the text of the message and the app it names, the
\* list discoverApps built; with it, for start(), configuredHost and
\* configuredPort, what the probes met and the endpoints start() tried, and
\* for stop() the name of the session it cleared.
Result(call, text, app, host, port, apps, met, tried) ==
    [call |-> call, text |-> text, app |-> app, host |-> host, port |-> port,
     apps |-> apps, met |-> met, tried |-> tried]

\* no call returned in the last step
NoResult == Result("", "", <<>>, "", 0, <<>>, <<>>, <<>>)

\* no start() awaits behind the call in progress
NoOvertaken == [call |-> Idle, orphaned |-> FALSE]

\* the session layer before any call, MCP_BRIDGE_PORT left open
SessionStart ==
    /\ appDiscovery = "null"
    /\ activeSessions = <<>>
    /\ clients = [c \in ClientIds |-> NoClient]
    /\ pluginClient = 0
    /\ currentSession = NoSession
    /\ running = Idle
    /\ result = NoResult
    /\ overtaken = NoOvertaken

(***************************************************************************)
(* Initial state: the client after its constructor.                        *)
(***************************************************************************)
PluginInit ==
    /\ ws = 0
    /\ reconnectAttempts = 0
    /\ pendingRequests = <<>>
    /\ sockets = [s \in Slots |-> NoSocket]
    /\ calls = <<>>
    /\ requestTimers = <<>>
    /\ reconnectTimers = <<>>
    /\ errorListener = FALSE
    /\ crashed = FALSE
    /\ scheduled = <<>>
    /\ disconnected = FALSE
    /\ last = NoReturn

Init ==
    /\ env = [MCP_BRIDGE_HOST |-> NoHost, TAURI_DEV_HOST |-> NoHost, MCP_BRIDGE_PORT |-> Unset]
    /\ SessionStart
    /\ PluginInit

(***************************************************************************)
(* connect()                                                               *)
(***************************************************************************)
\* this._ws?.readyState === WebSocket.OPEN
isConnected == ws # 0 /\ ReadyState(sockets[ws]) = "OPEN"

\* connect() without its check of the open socket
AlreadyOpenUnchecked == FALSE

AlreadyOpen == isConnected

\* The body of connect(): the state of the socket list and of this._ws after it.
ConnectBody ==
    IF AlreadyOpen
    THEN UNCHANGED <<ws, sockets>>
    ELSE /\ sockets' = [sockets EXCEPT ![FreeSlot] = NewSocket]
         /\ ws' = FreeSlot

\* the connections under way
UnderWay == Cardinality(Live) + Len(reconnectTimers)

Connect ==
    /\ ~crashed
    /\ UNCHANGED sessionVars
    /\ isConnected \/ UnderWay < MaxLive
    /\ ConnectBody
    /\ disconnected' = FALSE
    /\ last' = IF AlreadyOpen THEN Resolved("connect", 0, NullMsg, <<>>) ELSE NoReturn
    /\ UNCHANGED <<reconnectAttempts, pendingRequests, calls, requestTimers, reconnectTimers,
                   errorListener, crashed, scheduled>>

\* the timers are a multiset, kept as a sequence in ascending order of delay
Remove(seq, i) ==
    [k \in 1..(Len(seq) - 1) |-> IF k < i THEN seq[k] ELSE seq[k + 1]]

Insert(seq, d) ==
    LET n == Cardinality({k \in 1..Len(seq) : seq[k] <= d}) IN
    [k \in 1..(Len(seq) + 1) |->
        IF k <= n THEN seq[k] ELSE IF k = n + 1 THEN d ELSE seq[k - 1]]

\* the callback of the reconnect timer: this.connect().catch(() => {})
ReconnectTimer(i) ==
    /\ ~crashed
    /\ UNCHANGED sessionVars
    /\ i \in 1..Len(reconnectTimers)
    /\ reconnectTimers' = Remove(reconnectTimers, i)
    /\ ConnectBody
    /\ last' = NoReturn
    /\ UNCHANGED <<reconnectAttempts, pendingRequests, calls, requestTimers, errorListener,
                   crashed, scheduled, disconnected>>

(***************************************************************************)
(* The handlers registered on a socket by connect().                       *)
(***************************************************************************)
\* the comparison of the close handler, off by one
MayReconnectInclusive == reconnectAttempts <= maxReconnectAttempts

\* this._reconnectAttempts < this._maxReconnectAttempts
MayReconnect == reconnectAttempts < maxReconnectAttempts

\* 1000 * this._reconnectAttempts, read after the increment
ReconnectDelay(attempts) == ReconnectStepMs * attempts

\* a close handler that reconnects whatever the counter
CloseHandlerUnguarded ==
    /\ ws' = 0
    /\ reconnectAttempts' = reconnectAttempts + 1
    /\ reconnectTimers' = Insert(reconnectTimers, ReconnectDelay(reconnectAttempts + 1))
    /\ scheduled' = Append(scheduled, ReconnectDelay(reconnectAttempts + 1))

\* ws.on('close'): this._ws = null, then the auto-reconnect
CloseHandler ==
    /\ ws' = 0
    /\ IF MayReconnect
       THEN /\ reconnectAttempts' = reconnectAttempts + 1
            /\ reconnectTimers' =
                   Insert(reconnectTimers, ReconnectDelay(reconnectAttempts + 1))
            /\ scheduled' =
                   Append(scheduled, ReconnectDelay(reconnectAttempts + 1))
       ELSE UNCHANGED <<reconnectAttempts, reconnectTimers, scheduled>>

\* this.emit('error', err) on an EventEmitter without a listener for 'error'
\* throws err, so the rest of the handler does not run.
EmitErrorThrows == ~errorListener

\* ws.on('error'): this.emit('error', err); reject(err)
ErrorHandler(sock) ==
    IF EmitErrorThrows
    THEN sock
    ELSE [sock EXCEPT !.promise = Settle(sock.promise, "rejected")]

\* an open handler that leaves the counter as it is
AttemptsKept == reconnectAttempts

\* this._reconnectAttempts = 0 of the open handler
AttemptsReset == 0

\* ws.on('open'): the counter is reset and the connect() promise resolved
Open(s) ==
    /\ ~crashed
    /\ UNCHANGED sessionVars
    /\ s \in Slots
    /\ sockets[s].state = "CONNECTING"
    /\ sockets' = [sockets EXCEPT ![s].state = "OPEN",
                                  ![s].promise = Settle(sockets[s].promise, "resolved")]
    /\ reconnectAttempts' = AttemptsReset
    /\ scheduled' = <<>>
    /\ last' = NoReturn
    /\ UNCHANGED <<ws, pendingRequests, calls, requestTimers, reconnectTimers, errorListener,
                   crashed, disconnected>>

\* the error of a failed handshake
HandshakeError == "connect failed"

\* The handshake fails (connection refused, DNS failure, or aborted by close()):
\* ws emits 'error' and then 'close' in the same turn.  When the 'error'
\* handler throws, 'close' is not emitted and the exception is uncaught.
ConnectFail(s) ==
    /\ ~crashed
    /\ UNCHANGED sessionVars
    /\ s \in Slots
    /\ sockets[s].state \in {"CONNECTING", "ABORTING"}
    /\ IF EmitErrorThrows
       THEN /\ sockets' = [sockets EXCEPT ![s] =
                   [ErrorHandler(sockets[s]) EXCEPT !.state = "ERRORED", !.failed = TRUE]]
            /\ crashed' = TRUE
            /\ last' = NoReturn
            /\ UNCHANGED <<ws, reconnectAttempts, reconnectTimers, scheduled>>
       ELSE /\ sockets' = [sockets EXCEPT ![s] = NoSocket]
            /\ last' = IF ErrorHandler(sockets[s]).promise = "rejected"
                       THEN Rejected("handshake", 0, HandshakeError)
                       ELSE NoReturn
            /\ CloseHandler
            /\ UNCHANGED crashed
    /\ UNCHANGED <<pendingRequests, calls, requestTimers, errorListener, disconnected>>

\* An open socket emits 'error' (a frame the receiver rejects); its 'close'
\* follows in a later turn.
SocketError(s) ==
    /\ ~crashed
    /\ UNCHANGED sessionVars
    /\ s \in Slots
    /\ sockets[s].state = "OPEN"
    /\ sockets' = [sockets EXCEPT ![s] =
           [ErrorHandler(sockets[s]) EXCEPT !.state = "ERRORED"]]
    /\ crashed' = EmitErrorThrows
    /\ last' = NoReturn
    /\ UNCHANGED <<ws, reconnectAttempts, pendingRequests, calls, requestTimers, reconnectTimers,
                   errorListener, scheduled, disconnected>>

\* The socket emits 'close': the peer closed it, the network dropped, or a
\* close() or an error of an open socket completed.
SocketClose(s) ==
    /\ ~crashed
    /\ UNCHANGED sessionVars
    /\ s \in Slots
    /\ sockets[s].state \in {"OPEN", "CLOSING", "ERRORED"}
    /\ sockets' = [sockets EXCEPT ![s] = NoSocket]
    /\ CloseHandler
    /\ last' = NoReturn
    /\ UNCHANGED <<pendingRequests, calls, requestTimers, errorListener, crashed, disconnected>>

(***************************************************************************)
(* disconnect()                                                            *)
(***************************************************************************)
\* ws.close(): an open socket starts the closing handshake, a connecting one
\* aborts its handshake; on a socket that is already closing it does nothing.
CloseSocket(sock) ==
    CASE sock.state = "OPEN" -> [sock EXCEPT !.state = "CLOSING"]
      [] sock.state = "CONNECTING" -> [sock EXCEPT !.state = "ABORTING"]
      [] OTHER -> sock

\* if (this._ws): only then is the counter raised and the socket closed
DisconnectActs == ws # 0

Disconnect ==
    /\ ~crashed
    /\ UNCHANGED sessionVars
    /\ IF DisconnectActs
       THEN /\ reconnectAttempts' = maxReconnectAttempts
            /\ sockets' = [sockets EXCEPT ![ws] = CloseSocket(sockets[ws])]
            /\ ws' = 0
       ELSE UNCHANGED <<reconnectAttempts, sockets, ws>>
    /\ disconnected' = TRUE
    /\ last' = NoReturn
    /\ UNCHANGED <<pendingRequests, calls, requestTimers, reconnectTimers, errorListener,
                   crashed, scheduled>>

\* client.on('error', listener), inherited from EventEmitter
OnError ==
    /\ ~crashed
    /\ UNCHANGED sessionVars
    /\ ~errorListener
    /\ errorListener' = TRUE
    /\ last' = NoReturn
    /\ UNCHANGED <<ws, reconnectAttempts, pendingRequests, sockets, calls,
                   requestTimers, reconnectTimers, crashed, scheduled, disconnected>>

(***************************************************************************)
(* sendCommand(command, timeoutMs)                                         *)
(***************************************************************************)
\* sendCommand checking only that there is a socket
CanSendAnyState == ws # 0

\* the negation of (!this._ws || this._ws.readyState !== WebSocket.OPEN)
CanSend == ws # 0 /\ ReadyState(sockets[ws]) = "OPEN"

\* `req_${Date.now()}_${random}`: an id no earlier request of the client has
NextId == Len(calls) + 1

\* the message built from the default instead of the argument
TimeoutMessageDefault(timeoutMs) ==
    "Request timeout after " \o ToString(DefaultTimeoutMs) \o "ms"

\* `Request timeout after ${timeoutMs}ms`
TimeoutMessage(timeoutMs) ==
    "Request timeout after " \o ToString(timeoutMs) \o "ms"

NotConnectedMessage == "Not connected to plugin"

\* the error that ws hands to the callback of send()
WriteError == "write failed"

\* the id embedded in the request of call c (NextId when the call was made)
RequestId(c) == c

\* resolve(value) and reject(reason) of the promise of call c
ResolveCall(c, value, raw) ==
    IF calls[c] = "pending"
    THEN /\ calls' = [calls EXCEPT ![c] = "settled"]
         /\ last' = Resolved("sendCommand", c, value, raw)
    ELSE /\ UNCHANGED calls
         /\ last' = NoReturn

\* a rejection that takes every call in flight with it
RejectEveryCall(c, reason) ==
    IF calls[c] = "pending"
    THEN /\ calls' = [d \in DOMAIN calls |-> "settled"]
         /\ last' = Rejected("sendCommand", c, reason)
    ELSE /\ UNCHANGED calls
         /\ last' = NoReturn

RejectCall(c, reason) ==
    IF calls[c] = "pending"
    THEN /\ calls' = [calls EXCEPT ![c] = "settled"]
         /\ last' = Rejected("sendCommand", c, reason)
    ELSE /\ UNCHANGED calls
         /\ last' = NoReturn

SendCommand(timeoutMs) ==
    /\ ~crashed
    /\ UNCHANGED sessionVars
    /\ IF CanSend
       THEN /\ Len(calls) < MaxCalls
            /\ calls' = Append(calls, "pending")
            /\ requestTimers' = MapSet(requestTimers, NextId, timeoutMs)
            /\ pendingRequests' = MapSet(pendingRequests, NextId, Len(calls) + 1)
            /\ last' = NoReturn
       ELSE /\ UNCHANGED <<calls, requestTimers, pendingRequests>>
            /\ last' = Rejected("sendCommand", 0, NotConnectedMessage)
    /\ UNCHANGED <<ws, reconnectAttempts, sockets, reconnectTimers,
                   errorListener, crashed, scheduled, disconnected>>

\* the timer of request id fires: the entry is deleted and the promise rejected
Timeout(id) ==
    /\ ~crashed
    /\ UNCHANGED sessionVars
    /\ id \in DOMAIN requestTimers
    /\ requestTimers' = MapDelete(requestTimers, id)
    /\ pendingRequests' = MapDelete(pendingRequests, id)
    /\ RejectCall(CHOOSE c \in DOMAIN calls : RequestId(c) = id,
                  TimeoutMessage(requestTimers[id]))
    /\ UNCHANGED <<ws, reconnectAttempts, sockets, reconnectTimers,
                   errorListener, crashed, scheduled, disconnected>>

\* The callback of ws.send() runs with an error: it clears the timer, deletes
\* the entry and rejects.  ws runs the callback once; without an error it does
\* nothing, and once the request has settled it changes nothing, so only the
\* failing callback of a pending request is a step.
WriteFail(id) ==
    /\ ~crashed
    /\ UNCHANGED sessionVars
    /\ \E c \in DOMAIN calls :
           /\ RequestId(c) = id
           /\ calls[c] = "pending"
           /\ RejectCall(c, WriteError)
    /\ requestTimers' = MapDelete(requestTimers, id)
    /\ pendingRequests' = MapDelete(pendingRequests, id)
    /\ UNCHANGED <<ws, reconnectAttempts, sockets, reconnectTimers,
                   errorListener, crashed, scheduled, disconnected>>

(***************************************************************************)
(* ws.on('message')                                                        *)
(***************************************************************************)
\* message.id && this._pendingRequests.has(message.id)
IsResponse(message) == message.id # 0 /\ message.id \in DOMAIN pendingRequests

\* correlation by arrival order: the oldest entry, whatever the id
LookupOldest(id) ==
    pendingRequests[CHOOSE k \in DOMAIN pendingRequests :
                        \A j \in DOMAIN pendingRequests : k <= j]

\* this._pendingRequests.get(message.id): the entry, which holds the resolve
\* and reject of one call
Lookup(id) == pendingRequests[id]

\* a dispatcher that interprets the success flag of the response
DeliverInterpreted(c, message, raw) ==
    IF message.success
    THEN ResolveCall(c, message, raw)
    ELSE RejectCall(c, message.error)

\* pending.resolve(message)
Deliver(c, message, raw) == ResolveCall(c, message, raw)

\* a handler that discards what is no response
EmitNothing(message, raw) == last' = Discarded(raw)

\* this.emit('event', message).  Listeners for 'event' come and go with on()
\* and off() of the owner of the client, and nothing in the client depends on
\* them: whether one is registered is drawn at each emit.  With one, it is
\* called with the message; without one, emit returns false.
Emit(message, raw) ==
    \E listening \in BOOLEAN : last' = Emitted(message, raw, listening)

Message(s, payload) ==
    /\ ~crashed
    /\ UNCHANGED sessionVars
    /\ s \in Slots
    /\ sockets[s].state \in {"OPEN", "CLOSING"}
    /\ IF ~Parses(payload) \/ ~HasProperties(payload)
       THEN /\ UNCHANGED <<pendingRequests, calls, requestTimers>>
            /\ last' = Discarded(payload)
       ELSE LET message == JSONparse(payload) IN
            IF IsResponse(message)
            THEN /\ requestTimers' = MapDelete(requestTimers, message.id)
                 /\ pendingRequests' = MapDelete(pendingRequests, message.id)
                 /\ Deliver(Lookup(message.id), message, payload)
            ELSE /\ UNCHANGED <<pendingRequests, calls, requestTimers>>
                 /\ Emit(message, payload)
    /\ UNCHANGED <<ws, reconnectAttempts, sockets, reconnectTimers,
                   errorListener, crashed, scheduled, disconnected>>

(***************************************************************************)
(* Specification                                                           *)
(***************************************************************************)
Next ==
    \/ Connect
    \/ Disconnect
    \/ OnError
    \/ \E t \in TimeoutChoices : SendCommand(t)
    \/ \E i \in 1..MaxLive : ReconnectTimer(i)
    \/ \E s \in Slots : Open(s)
    \/ \E s \in Slots : ConnectFail(s)
    \/ \E s \in Slots : SocketError(s)
    \/ \E s \in Slots : SocketClose(s)
    \/ \E s \in Slots, payload \in Payloads : Message(s, payload)
    \/ \E id \in 1..MaxCalls : Timeout(id)
    \/ \E id \in 1..MaxCalls : WriteFail(id)

Spec == Init /\ [][Next]_vars

TypeOK ==
    /\ ws \in {0} \cup Live
    /\ reconnectAttempts \in 0..maxReconnectAttempts
    /\ DOMAIN pendingRequests \subseteq 1..Len(calls)
    /\ UnderWay <= MaxLive
    /\ Len(calls) <= MaxCalls

\* The timers of Node fire: a timer that is armed runs its callback.
FairSpec == Spec /\ \A id \in 1..MaxCalls : WF_vars(Timeout(id))

(***************************************************************************)
(* Events of a step, read off the state before and after it.               *)
(***************************************************************************)
\* a socket was created
SocketCreated ==
    \E s \in Slots : sockets[s].state # "CONNECTING" /\ sockets'[s].state = "CONNECTING"

\* a socket emitted 'close'
CloseEvent ==
    \E s \in Slots : sockets[s].state # "CLOSED" /\ sockets'[s].state = "CLOSED"

\* the promise of call c settled
SettledNow(c) == calls[c] = "pending" /\ calls'[c] = "settled"

\* sendCommand was called
SendCommandCalled ==
    \/ Len(calls') > Len(calls)
    \/ last'.op = "sendCommand" /\ last'.call = 0

\* this._ws is an open socket
SocketIsOpen == ws # 0 /\ sockets[ws].state = "OPEN"

(***************************************************************************)
(* C1.  Whatever the order in which responses arrive, a step that resolves *)
(* the promise of a call resolves it with a message whose id is the id     *)
(* embedded in the request of that same call; no response settles the      *)
(* promise of another call.                                                *)
(***************************************************************************)
C1_Correlation ==
    [][\A c \in DOMAIN calls :
          (SettledNow(c) /\ last'.status = "resolved") =>
              /\ last'.call = c
              /\ last'.value.id = RequestId(c)
              /\ \A d \in DOMAIN calls : d # c => calls'[d] = calls[d]]_vars

\* the second of two requests in flight is answered first
C1_Witness ==
    /\ Len(calls) = 2
    /\ calls[1] = "pending"
    /\ calls[2] = "settled"
    /\ last.status = "resolved"
    /\ last.call = 2
    /\ last.value.id = 2

(***************************************************************************)
(* C2.  When a socket emits 'close' while requests are pending, every      *)
(* pending promise is rejected at that event and the pending map is empty  *)
(* afterwards.                                                             *)
(***************************************************************************)
C2_CloseRejectsAll ==
    [][(CloseEvent /\ DOMAIN pendingRequests # {}) =>
          /\ pendingRequests' = <<>>
          /\ \A c \in DOMAIN calls : calls'[c] = "settled"]_vars

(***************************************************************************)
(* C3.  Every promise returned by sendCommand eventually settles.          *)
(***************************************************************************)
C3_EverySendSettles ==
    \A c \in 1..MaxCalls :
        (c \in DOMAIN calls /\ calls[c] = "pending")
            ~> (c \in DOMAIN calls /\ calls[c] = "settled")

(***************************************************************************)
(* C4.  When the timer of a request with timeout T fires, the promise is   *)
(* rejected with "Request timeout after Tms" and the entry of the request  *)
(* is no longer in the pending map; once every request has timed out the   *)
(* pending map is empty.                                                   *)
(***************************************************************************)
TimeoutText(timeoutMs) ==
    CASE timeoutMs = 5000 -> "Request timeout after 5000ms"
      [] timeoutMs = 7000 -> "Request timeout after 7000ms"
      [] OTHER -> "?"

C4_Timeout ==
    [][\A id \in DOMAIN requestTimers :
          (/\ id \notin DOMAIN requestTimers'
           /\ last'.status = "rejected"
           /\ last'.reason # WriteError) =>
              /\ last'.reason = TimeoutText(requestTimers[id])
              /\ last'.call = id
              /\ id \notin DOMAIN pendingRequests'
              /\ ((\A c \in DOMAIN calls : calls'[c] = "settled")
                     => pendingRequests' = <<>>)]_vars

\* two requests with different timeouts have both timed out
C4_Witness ==
    /\ Len(calls) = 2
    /\ \A c \in DOMAIN calls : calls[c] = "settled"
    /\ last = Rejected("sendCommand", 2, "Request timeout after 7000ms")
    /\ pendingRequests = <<>>
    /\ requestTimers = <<>>

C7_DisconnectIsFinal ==
    [][(disconnected /\ disconnected') => ~SocketCreated]_vars

(***************************************************************************)
(* C8.  While the socket of the client is open, connect() resolves at once *)
(* and changes nothing: no socket is created, and the socket reference,    *)
(* the reconnect counter and the pending map stay as they are.             *)
(***************************************************************************)
C8_ConnectIdempotent ==
    [][SocketIsOpen =>
          /\ ~SocketCreated
          /\ ws' \in {ws, 0}
          /\ (last'.op = "connect" =>
                 /\ last'.status = "resolved"
                 /\ UNCHANGED clientVars)]_vars

\* connect() on an open client that has a request in flight
C8_Witness ==
    /\ last.op = "connect"
    /\ last.status = "resolved"
    /\ SocketIsOpen
    /\ DOMAIN pendingRequests # {}
    /\ Cardinality(Live) = 1

(***************************************************************************)
(* C9.  When the connection attempt errors before the socket opens, the    *)
(* promise of the connect() call that created the socket is rejected.      *)
(***************************************************************************)
C9_ConnectErrorRejects ==
    \A s \in Slots : sockets[s].failed => sockets[s].promise = "rejected"

(***************************************************************************)
(* C10.  A promise of sendCommand that resolves holds the inbound message  *)
(* field by field as it was received, also when success is false; a        *)
(* promise of sendCommand is rejected only because the client is not       *)
(* connected, the timer fired or the write failed.                         *)
(***************************************************************************)
C10_PassThrough ==
    last.op = "sendCommand" =>
        /\ last.status = "resolved" =>
              /\ Len(last.raw) = 5
              /\ last.value.id = last.raw[2]
              /\ last.value.success = last.raw[3]
              /\ last.value.data = last.raw[4]
              /\ last.value.error = last.raw[5]
        /\ last.status = "rejected" =>
              last.reason \in {"Not connected to plugin", "write failed",
                               "Request timeout after 5000ms",
                               "Request timeout after 7000ms"}

\* a response with success = false resolved the promise
C10_Witness ==
    /\ last.op = "sendCommand"
    /\ last.status = "resolved"
    /\ last.value = [id |-> last.call, success |-> FALSE, data |-> "",
                     error |-> "command failed"]

(***************************************************************************)
(* The session layer: manageDriverSession of session-manager.ts, the       *)
(* AppDiscovery it keeps, and the PluginClient objects both create.        *)
(* Calls are made one at a time; a call runs up to its next await, and the *)
(* events of sockets and timers come between.                              *)
(***************************************************************************)
\* getDefaultHost with the two variables read in the other order
getDefaultHostDevFirst ==
    IF env.TAURI_DEV_HOST \notin {NoHost, ""} THEN env.TAURI_DEV_HOST
    ELSE IF env.MCP_BRIDGE_HOST \notin {NoHost, ""} THEN env.MCP_BRIDGE_HOST
    ELSE "localhost"

\* a || b is b when a is undefined or the empty text
getDefaultHost ==
    IF env.MCP_BRIDGE_HOST \notin {NoHost, ""} THEN env.MCP_BRIDGE_HOST
    ELSE IF env.TAURI_DEV_HOST \notin {NoHost, ""} THEN env.TAURI_DEV_HOST
    ELSE "localhost"

\* getDefaultPort falling back to 9223 when the text holds no number
getDefaultPortOrBase ==
    IF env.MCP_BRIDGE_PORT \notin {Unset, <<>>} /\ parseInt(env.MCP_BRIDGE_PORT) # NaN
    THEN parseInt(env.MCP_BRIDGE_PORT)
    ELSE BasePort

\* port ? parseInt(port, 10) : 9223
getDefaultPort ==
    IF env.MCP_BRIDGE_PORT \notin {Unset, <<>>}
    THEN parseInt(env.MCP_BRIDGE_PORT)
    ELSE BasePort

\* !!process.env.MCP_BRIDGE_PORT
isPortExplicitlyConfigured == env.MCP_BRIDGE_PORT \notin {Unset, <<>>}

\* buildWebSocketURL gives a URL that new WebSocket accepts
ValidURL(host, port) == port \in 1..65535

StartedText == "Session started with app"
ExplicitFailureText == "Failed to connect to Tauri app - auto-discovery disabled"
DegradedText == "Session started (native IPC mode - no Tauri app found)"
StoppedText == "Session stopped"

\* Slots of clients nothing refers to and nothing can wake are given back.
Tidy(cl, sessions, single, waiting) ==
    [c \in ClientIds |->
        IF /\ cl[c].ws = "none"
           /\ ~cl[c].timer
           /\ c # single
           /\ c # waiting
           /\ \A sid \in DOMAIN sessions : sessions[sid].client # c
        THEN NoClient
        ELSE cl[c]]

FreeIn(cl) == {c \in ClientIds : cl[c] = NoClient}

Lowest(set) == CHOOSE c \in set : \A d \in set : c <= d

\* PluginClient.disconnect() on the clients of set; a pending reconnect
\* timer is not cleared
Disconnected(cl, set) ==
    [c \in ClientIds |->
        IF c \in set /\ cl[c].ws # "none"
        THEN [cl[c] EXCEPT !.ws = "none", !.attempts = maxReconnectAttempts]
        ELSE cl[c]]

\* this.emit('error', err) of a client throws: no code of the repository
\* registers an 'error' listener on the clients the session layer creates.
ClientEmitThrows == TRUE

\* close() on a socket that is still connecting aborts its handshake: ws
\* emits 'error' on the next tick, before the call goes on; the client
\* re-emits it, no listener is registered, and emit throws.
AbortsAny(set) == ClientEmitThrows /\ \E c \in set : Connecting(clients[c])

\* the clients resetPluginClient() disconnects
Singleton == IF pluginClient = 0 THEN {} ELSE {pluginClient}

\* An exception leaves a handler uncaught and the process exits: its objects
\* and their sockets are gone; the call r, in progress, never returns.
Exit(r) ==
    /\ crashed' = TRUE
    /\ running' = r
    /\ appDiscovery' = "null"
    /\ activeSessions' = <<>>
    /\ clients' = [c \in ClientIds |-> NoClient]
    /\ pluginClient' = 0
    /\ currentSession' = NoSession
    /\ result' = NoResult
    /\ overtaken' = NoOvertaken
    /\ UNCHANGED <<env, pluginVars>>

\* No step of a call is ready to run: the event loop takes the next event.
Quiet == running.phase # "run"

(***************************************************************************)
(* status                                                                  *)
(***************************************************************************)
\* getPluginClient(): the slot of the singleton after the call
getPluginClient == IF pluginClient # 0 THEN pluginClient ELSE Lowest(FreeIn(clients))

\* the clients after getPluginClient()
WithSingleton ==
    IF pluginClient # 0
    THEN clients
    ELSE [clients EXCEPT ![getPluginClient] =
             Client(getDefaultHost, getDefaultPort, "none", FALSE, 0)]

NotConnectedStatus == Result("status", "not connected", <<>>, "", 0, <<>>, <<>>, <<>>)

ConnectedStatus ==
    Result("status", "connected", currentSession.name, currentSession.host,
           currentSession.port, <<>>, <<>>, <<>>)

Status ==
    /\ ~crashed
    /\ running = Idle
    /\ pluginClient # 0 \/ FreeIn(clients) # {}
    /\ pluginClient' = getPluginClient
    /\ clients' = WithSingleton
    /\ result' = IF WithSingleton[getPluginClient].ws = "open" /\ currentSession # NoSession
                 THEN ConnectedStatus
                 ELSE NotConnectedStatus
    /\ UNCHANGED <<env, overtaken, appDiscovery, activeSessions, currentSession, running,
                   crashed, pluginVars>>

(***************************************************************************)
(* stop                                                                    *)
(***************************************************************************)
\* disconnectAll() with the loop over the sessions left out
TrackedNone == {}

\* the clients of the sessions appDiscovery tracks
Tracked == {activeSessions[sid].client : sid \in DOMAIN activeSessions}

Stopping == [Idle EXCEPT !.kind = "stop"]

\* stop() has released the clients of set
Released(cl, set) ==
    [c \in ClientIds |-> IF c \in set THEN [cl[c] EXCEPT !.stopped = TRUE] ELSE cl[c]]

\* the body of stop(): it has no await that yields to an event
StopBody ==
    /\ IF AbortsAny(Tracked \cup Singleton)
       THEN Exit(Stopping)
       ELSE /\ activeSessions' = <<>>
            /\ clients' = Tidy(Released(Disconnected(clients, Tracked \cup Singleton),
                                         Tracked), <<>>, 0, 0)
            /\ pluginClient' = 0
            /\ currentSession' = NoSession
            /\ result' = Result("stop", StoppedText, currentSession.name, "", 0, <<>>,
                                <<>>, <<>>)
            /\ UNCHANGED <<env, overtaken, appDiscovery, running, crashed, pluginVars>>

Stop ==
    /\ ~crashed
    /\ running = Idle
    /\ StopBody

(***************************************************************************)
(* start                                                                   *)
(***************************************************************************)
\* TriesLocalhostFirst with strategy 1 left out
TriesLocalhostNever(configuredHost) == FALSE

\* configuredHost !== 'localhost' && configuredHost !== '127.0.0.1'
TriesLocalhostFirst(configuredHost) ==
    configuredHost # "localhost" /\ configuredHost # "127.0.0.1"

\* start() returns its explicit-port failure message
ExplicitFailure(r, tried) ==
    /\ currentSession' = NoSession
    /\ result' = Result("start", ExplicitFailureText, <<>>, r.host, r.port, <<>>, r.met, tried)
    /\ running' = Idle

\* start() returns its last message after the final attempt failed
Degraded(r, tried) ==
    /\ currentSession' = NoSession
    /\ result' = Result("start", DegradedText, <<>>, r.host, r.port, <<>>, r.met, tried)
    /\ running' = Idle

\* start() goes on with strategy step
GoOn(r, step, tried) ==
    /\ running' = [r EXCEPT !.step = step, !.phase = "run", !.wait = 0, !.tried = tried]
    /\ result' = NoResult
    /\ UNCHANGED currentSession

\* What start() does after the attempt of its current strategy failed.
Failed(r, tried) ==
    CASE r.step = 1 -> GoOn(r, 2, tried)
      [] r.step = 2 -> IF r.explicit THEN ExplicitFailure(r, tried) ELSE GoOn(r, 3, tried)
      [] r.step = 3 -> IF r.explicit THEN ExplicitFailure(r, tried) ELSE GoOn(r, 4, tried)
      [] OTHER -> Degraded(r, tried)

\* start() returns after its attempt at host:port attached the client in slot c
Attached(r, host, port, c, tried) ==
    /\ currentSession' = Session(host, port, c)
    /\ result' = Result("start", StartedText, AppName(host, port), r.host, r.port, <<>>,
                        r.met, tried)
    /\ running' = Idle

\* the scan of strategy 3 is over
Scanned == Len(running.met) = MaxPorts

\* the endpoint strategy r.step of the call r connects to
TargetHost(r) == IF r.step \in {1, 3} THEN "localhost" ELSE r.host
TargetPort(r) == IF r.step = 3 THEN r.apps[1] ELSE r.port

\* getAppDiscovery(host): the registry of the instance it returns
RegistryFor(host) == IF appDiscovery # host THEN <<>> ELSE activeSessions

\* The start() that awaits its connect() while another call runs, after
\* getAppDiscovery(host): a call that begins while start() awaits leaves it
\* awaiting, and an instance that is replaced stays with the call that
\* connects through it.
LeftAwaiting(host) ==
    LET left == IF running.kind = "start" /\ running.phase = "wait"
                THEN [call |-> running, orphaned |-> FALSE]
                ELSE overtaken
    IN IF left.call = Idle
       THEN left
       ELSE [left EXCEPT !.orphaned = @ \/ appDiscovery # host]

SessionInfo(host, port, c) ==
    [appId |-> <<host, port>>, name |-> AppName(host, port), host |-> host, port |-> port,
     client |-> c, connected |-> TRUE]

\* One strategy of the call r, up to its await: resetPluginClient() where the
\* code has it (reset), then tryConnect(TargetHost, TargetPort).
TryConnect(r, reset) ==
    LET sid == <<TargetHost(r), TargetPort(r)>>
        sessions == RegistryFor(TargetHost(r))
        single == IF reset THEN 0 ELSE pluginClient
        cl == Tidy(Disconnected(clients, IF reset THEN Singleton ELSE {}), sessions, single, 0)
        tried == Append(r.tried, sid)
    IN IF reset /\ AbortsAny(Singleton) THEN Exit([r EXCEPT !.phase = "wait"]) ELSE
       /\ appDiscovery' = TargetHost(r)
       /\ activeSessions' = sessions
       /\ pluginClient' = single
       /\ overtaken' = LeftAwaiting(TargetHost(r))
       /\ UNCHANGED <<env, crashed, pluginVars>>
       /\ IF sid \in DOMAIN sessions /\ sessions[sid].connected
          THEN /\ Attached(r, TargetHost(r), TargetPort(r), sessions[sid].client, tried)
               /\ clients' = cl
          ELSE IF ~ValidURL(TargetHost(r), TargetPort(r))
          THEN /\ Failed(r, tried)
               /\ clients' = cl
          ELSE /\ FreeIn(cl) # {}
               /\ \E kind \in Kinds :
                     clients' = [cl EXCEPT ![Lowest(FreeIn(cl))] =
                                    Client(TargetHost(r), TargetPort(r), kind, FALSE, 0)]
               /\ running' = [r EXCEPT !.phase = "wait", !.wait = Lowest(FreeIn(cl)),
                                       !.tried = tried]
               /\ result' = NoResult
               /\ UNCHANGED currentSession

\* configuredHost, configuredPort and portIsExplicit of start(host, port), and
\* the strategy it begins with
StartOf(host, port) ==
    LET configuredHost == IF host = NoHost THEN getDefaultHost ELSE host IN
    Call("start", configuredHost,
         IF port = NoPort THEN getDefaultPort ELSE port,
         port # NoPort \/ isPortExplicitlyConfigured,
         IF TriesLocalhostFirst(configuredHost) THEN 1 ELSE 2,
         "run", 0, 0, 0, "", <<>>, <<>>, <<>>)

\* start(host, port) up to its first await
StartCall(host, port) ==
    /\ ~crashed
    /\ running = Idle
    /\ TryConnect(StartOf(host, port), TRUE)

\* getAppDiscovery('localhost').getFirstAvailableApp() up to its first await
Scan ==
    /\ appDiscovery' = "localhost"
    /\ activeSessions' = RegistryFor("localhost")
    /\ clients' = Tidy(clients, RegistryFor("localhost"), pluginClient, 0)
    /\ \E kind \in Kinds :
          running' = [running EXCEPT !.phase = "probe", !.base = getDefaultPort,
                                     !.offset = 0, !.probe = kind]
    /\ result' = NoResult
    /\ overtaken' = LeftAwaiting("localhost")
    /\ UNCHANGED <<env, pluginClient, currentSession, crashed, pluginVars>>

\* The next strategy of start(), up to its await.
Strategy ==
    /\ ~crashed
    /\ running.kind = "start"
    /\ running.phase = "run"
    /\ IF running.step = 3 /\ ~Scanned
       THEN Scan
       ELSE TryConnect(running, running.step \in {3, 4})

(***************************************************************************)
(* discoverApps and getFirstAvailableApp                                   *)
(***************************************************************************)
\* the port of the probe under way
ProbePort == running.base + running.offset

\* apps.length > 0 ? apps[0] : null, as a port (0 is null)
FirstOf(apps) == IF Len(apps) > 0 THEN apps[1] ELSE 0

\* getFirstAvailableApp() called on an AppDiscovery made with no arguments.
\* A scan and the clients of the sessions have no state in common; the call
\* is made while no client is in use.
DiscoverCall ==
    /\ ~crashed
    /\ running = Idle
    /\ \A c \in ClientIds : clients[c] = NoClient
    /\ \E kind \in Kinds :
          running' = Call("discover", getDefaultHost, 0, FALSE, 0, "probe", 0,
                          getDefaultPort, 0, kind, <<>>, <<>>, <<>>)
    /\ result' = NoResult
    /\ UNCHANGED <<env, overtaken, appDiscovery, activeSessions, clients, pluginClient,
                   currentSession, crashed, pluginVars>>

\* The probe of one port is over, apps is the list so far: the loop of
\* discoverApps goes to the next port, or ends and its caller goes on.
ProbeEnd(apps) ==
    LET met == Append(running.met, running.probe) IN
    IF running.offset + 1 < MaxPorts
    THEN /\ \E kind \in Kinds :
               running' = [running EXCEPT !.offset = @ + 1, !.probe = kind,
                                          !.apps = apps, !.met = met]
         /\ result' = NoResult
         /\ UNCHANGED currentSession
    ELSE IF running.kind = "discover"
    THEN /\ running' = Idle
         /\ result' = Result("getFirstAvailableApp", "", <<>>, running.host,
                             FirstOf(apps), apps, met, <<>>)
         /\ UNCHANGED currentSession
    ELSE IF FirstOf(apps) # 0
    THEN /\ running' = [running EXCEPT !.phase = "run", !.probe = "", !.apps = apps,
                                       !.met = met]
         /\ result' = NoResult
         /\ UNCHANGED currentSession
    ELSE Failed(running, running.tried)

\* _isPortInUse: connect() won the race, the probe client is disconnected;
\* apps.push({ host, port, available: true })
ProbeOpen ==
    /\ ~crashed
    /\ running.phase = "probe"
    /\ running.probe = "live"
    /\ ProbeEnd(Append(running.apps, ProbePort))
    /\ UNCHANGED <<env, overtaken, appDiscovery, activeSessions, clients, pluginClient,
                   crashed, pluginVars>>

\* the host _isPortInUse probes: this._host of the scanning AppDiscovery
ProbeHost == IF running.kind = "discover" THEN running.host ELSE "localhost"

\* the client of a probe, left by _isPortInUse as it is in state wsState
LeftBehind(wsState, timer, attempts) ==
    [clients EXCEPT ![Lowest(FreeIn(clients))] =
        Client(ProbeHost, ProbePort, wsState, timer, attempts)]

\* _isPortInUse: the 100 ms timer won the race and the catch returns false;
\* nothing disconnects the probe client, whose socket is still connecting
ProbeTimeout ==
    /\ ~crashed
    /\ running.phase = "probe"
    /\ running.probe = "silent"
    /\ FreeIn(clients) # {}
    /\ clients' = LeftBehind("silent", FALSE, 0)
    /\ ProbeEnd(running.apps)
    /\ UNCHANGED <<env, overtaken, appDiscovery, activeSessions, pluginClient,
                   crashed, pluginVars>>

\* The socket of the probe emits 'error': the client re-emits it, and emit
\* throws out of the handler; with a listener the probe would reject,
\* _isPortInUse return false, and the close handler of the probe client have
\* scheduled its first reconnect.
ProbeRefused ==
    /\ ~crashed
    /\ running.phase = "probe"
    /\ running.probe = "refused"
    /\ IF ClientEmitThrows
       THEN Exit(running)
       ELSE /\ FreeIn(clients) # {}
            /\ clients' = LeftBehind("none", TRUE, 1)
            /\ ProbeEnd(running.apps)
            /\ UNCHANGED <<env, overtaken, appDiscovery, activeSessions, pluginClient,
                           crashed, pluginVars>>

(***************************************************************************)
(* connectPlugin                                                           *)
(***************************************************************************)
ConnectedResult(client) ==
    Result("connectPlugin", "connected", <<>>, client.host, client.port, <<>>, <<>>, <<>>)

ConnectPlugin ==
    /\ ~crashed
    /\ running = Idle
    /\ pluginClient # 0 \/ FreeIn(clients) # {}
    /\ pluginClient' = getPluginClient
    /\ LET c == getPluginClient
           client == WithSingleton[getPluginClient]
       IN IF client.ws = "open"
          THEN /\ clients' = WithSingleton
               /\ running' = Idle
               /\ result' = ConnectedResult(client)
          ELSE /\ \E kind \in Kinds : clients' = [WithSingleton EXCEPT ![c].ws = kind]
               /\ running' = Call("connectPlugin", client.host, client.port, FALSE, 0,
                                  "wait", c, 0, 0, "", <<>>, <<>>, <<>>)
               /\ result' = NoResult
    /\ UNCHANGED <<env, overtaken, appDiscovery, activeSessions, currentSession,
                   crashed, pluginVars>>

(***************************************************************************)
(* Events of the sockets and timers of the clients.                        *)
(***************************************************************************)
\* the call in progress awaits connect() of the client in slot c
Awaited(c) == running.phase = "wait" /\ running.wait = c

\* 'open': the handshake is complete.  The continuation of the call that
\* awaits this connect() runs before any other event.
ClientOpen(c) ==
    /\ ~crashed
    /\ Quiet
    /\ clients[c].ws = "live"
    /\ c # overtaken.call.wait
    /\ clients' = [clients EXCEPT ![c].ws = "open", ![c].attempts = 0]
    /\ IF Awaited(c) /\ running.kind = "start"
       THEN /\ activeSessions' =
                   MapSet(activeSessions, <<clients[c].host, clients[c].port>>,
                          SessionInfo(clients[c].host, clients[c].port, c))
            /\ Attached(running, clients[c].host, clients[c].port, c, running.tried)
       ELSE IF Awaited(c)
       THEN /\ running' = Idle
            /\ result' = ConnectedResult(clients[c])
            /\ UNCHANGED <<activeSessions, currentSession>>
       ELSE /\ result' = NoResult
            /\ UNCHANGED <<activeSessions, currentSession, running>>
    /\ UNCHANGED <<env, overtaken, appDiscovery, pluginClient, crashed, pluginVars>>

\* the close handler of a client
AfterClose(client) ==
    IF client.attempts < maxReconnectAttempts
    THEN [client EXCEPT !.ws = "none", !.attempts = @ + 1, !.timer = TRUE]
    ELSE [client EXCEPT !.ws = "none"]

RejectedResult(client) ==
    Result("connectPlugin", "rejected", <<>>, client.host, client.port, <<>>, <<>>, <<>>)

\* 'error' of a connecting socket: the client's handler re-emits it with
\* this.emit('error', err), and emit throws; with a listener the handler
\* would reject connect(), and the 'close' that follows the error would run
\* the close handler before the awaiting call goes on.
ClientRefused(c) ==
    /\ ~crashed
    /\ Quiet
    /\ clients[c].ws = "refused"
    /\ IF ClientEmitThrows
       THEN Exit(running)
       ELSE /\ clients' = [clients EXCEPT ![c] = AfterClose(@)]
            /\ IF Awaited(c) /\ running.kind = "start"
               THEN Failed(running, running.tried)
               ELSE IF Awaited(c)
               THEN /\ running' = Idle
                    /\ result' = RejectedResult(clients[c])
                    /\ UNCHANGED currentSession
               ELSE /\ result' = NoResult
                    /\ UNCHANGED <<currentSession, running>>
            /\ UNCHANGED <<env, overtaken, appDiscovery, activeSessions, pluginClient, crashed,
                           pluginVars>>

\* 'close' of an open socket: the close handler of the client
ClientDrop(c) ==
    /\ ~crashed
    /\ Quiet
    /\ clients[c].ws = "open"
    /\ clients' = [clients EXCEPT ![c] = AfterClose(@)]
    /\ result' = NoResult
    /\ UNCHANGED <<env, overtaken, appDiscovery, activeSessions, pluginClient, currentSession,
                   running, crashed, pluginVars>>

\* the reconnect timer of a client fires: this.connect()
ClientTimer(c) ==
    /\ ~crashed
    /\ Quiet
    /\ clients[c].timer
    /\ IF clients[c].ws = "open"
       THEN clients' = [clients EXCEPT ![c].timer = FALSE]
       ELSE \E kind \in Kinds : clients' = [clients EXCEPT ![c].timer = FALSE, ![c].ws = kind]
    /\ result' = NoResult
    /\ UNCHANGED <<env, overtaken, appDiscovery, activeSessions, pluginClient, currentSession,
                   running, crashed, pluginVars>>

(***************************************************************************)
(* The session specification.                                              *)
(***************************************************************************)
SessionInit ==
    /\ env \in SessionEnvs
    /\ SessionStart
    /\ PluginInit

SessionNext ==
    \/ Status
    \/ Stop
    \/ \E host \in HostArgs, port \in PortArgs : StartCall(host, port)
    \/ Strategy
    \/ DiscoverCall
    \/ ProbeOpen
    \/ ProbeTimeout
    \/ ProbeRefused
    \/ ConnectPlugin
    \/ \E c \in ClientIds : ClientOpen(c)
    \/ \E c \in ClientIds : ClientRefused(c)
    \/ \E c \in ClientIds : ClientDrop(c)
    \/ \E c \in ClientIds : ClientTimer(c)

SessionSpec == SessionInit /\ [][SessionNext]_vars

SessionTypeOK ==
    /\ env \in SessionEnvs
    /\ appDiscovery \in Hosts \cup {"null"}
    /\ DOMAIN activeSessions \subseteq Hosts \X (1..65535)
    /\ \A sid \in DOMAIN activeSessions :
          /\ activeSessions[sid].appId = sid
          /\ activeSessions[sid].client \in ClientIds
    /\ \A c \in ClientIds :
          /\ clients[c].ws \in Kinds \cup {"none", "open"}
          /\ clients[c].timer \in BOOLEAN
          /\ clients[c].stopped \in BOOLEAN
          /\ clients[c].attempts \in 0..maxReconnectAttempts
    /\ pluginClient \in ClientIds \cup {0}
    /\ running.kind \in {"none", "start", "stop", "discover", "connectPlugin"}
    /\ running.phase \in {"", "run", "wait", "probe"}
    /\ Len(running.tried) <= 4
    /\ Len(running.met) <= MaxPorts
    /\ overtaken.orphaned \in BOOLEAN
    /\ overtaken.call.kind \in {"none", "start"}

(***************************************************************************)
(* The configuration specification: getDefaultHost, getDefaultPort and the *)
(* three resolutions start(host, port) begins with, applied in every       *)
(* environment of Envs.                                                    *)
(***************************************************************************)
\* the values of MCP_BRIDGE_HOST and TAURI_DEV_HOST
EnvHosts == {NoHost, "", "192.168.1.100", "10.0.0.50"}

\* the values of MCP_BRIDGE_PORT: unset, empty, '9225', 'invalid', '92x',
\* '-5', ' 80', '0'
EnvTexts ==
    {Unset, <<>>, <<"9", "2", "2", "5">>, <<"i", "n", "v", "a", "l", "i", "d">>,
     <<"9", "2", "x">>, <<"-", "5">>, <<" ", "8", "0">>, <<"0">>}

Envs == [MCP_BRIDGE_HOST : EnvHosts, TAURI_DEV_HOST : EnvHosts, MCP_BRIDGE_PORT : EnvTexts]

\* the arguments start() is given
ConfigHostArgs == {NoHost, "", "localhost", "10.0.0.5"}
ConfigPortArgs == {NoPort, BasePort + 2, InvalidPort}

GetDefaultHost ==
    /\ result' = Result("getDefaultHost", "", <<>>, getDefaultHost, 0, <<>>, <<>>, <<>>)
    /\ UNCHANGED <<env, overtaken, appDiscovery, activeSessions, clients, pluginClient,
                   currentSession, running, crashed, pluginVars>>

GetDefaultPort ==
    /\ result' = Result("getDefaultPort", "", <<>>, "", getDefaultPort, <<>>, <<>>, <<>>)
    /\ UNCHANGED <<env, overtaken, appDiscovery, activeSessions, clients, pluginClient,
                   currentSession, running, crashed, pluginVars>>

\* configuredHost, configuredPort and portIsExplicit as start(host, port)
\* has them when it comes to its first strategy
Configure(host, port) ==
    /\ running' = StartOf(host, port)
    /\ result' = NoResult
    /\ UNCHANGED <<env, overtaken, appDiscovery, activeSessions, clients, pluginClient,
                   currentSession, crashed, pluginVars>>

ConfigInit ==
    /\ env \in Envs
    /\ SessionStart
    /\ PluginInit

ConfigNext ==
    \/ GetDefaultHost
    \/ GetDefaultPort
    \/ \E host \in ConfigHostArgs, port \in ConfigPortArgs : Configure(host, port)

ConfigSpec == ConfigInit /\ [][ConfigNext]_vars

ConfigTypeOK ==
    /\ env \in Envs
    /\ running.kind \in {"none", "start"}
    /\ running.explicit \in BOOLEAN
    /\ result.port \in Int

(***************************************************************************)
(* The race specification: the client of Spec with one more caller of     *)
(* connect().  Connect leaves a connect() alone while it is under way;     *)
(* here a second connect() is made while the socket of the first is still  *)
(* connecting, as when a caller connects while the connect() of a          *)
(* reconnect timer is in its handshake.                                    *)
(***************************************************************************)
\* connect() while this._ws is a socket that is connecting: readyState is
\* not OPEN, so a new socket is made and this._ws set to it; the socket of
\* the earlier call keeps its handlers
ConnectAgain ==
    /\ ~crashed
    /\ UNCHANGED sessionVars
    /\ ws # 0
    /\ sockets[ws].state = "CONNECTING"
    /\ UnderWay <= MaxLive
    /\ ConnectBody
    /\ disconnected' = FALSE
    /\ last' = NoReturn
    /\ UNCHANGED <<reconnectAttempts, pendingRequests, calls, requestTimers, reconnectTimers,
                   errorListener, crashed, scheduled>>

RaceNext ==
    \/ Next
    \/ ConnectAgain

RaceSpec == Init /\ [][RaceNext]_vars

RaceTypeOK ==
    /\ ws \in {0} \cup Live
    /\ reconnectAttempts \in 0..maxReconnectAttempts
    /\ DOMAIN pendingRequests \subseteq 1..Len(calls)
    /\ UnderWay <= MaxLive + 1
    /\ Len(calls) <= MaxCalls

(***************************************************************************)
(* The interleaved specification: the session layer with calls that begin  *)
(* while a start() awaits its connect().  manageDriverSession is an async  *)
(* function and holds no lock, so a call that arrives while start() awaits *)
(* runs up to its own await before the connect() of the first settles.     *)
(***************************************************************************)
\* start(host, port) begins while a start() awaits connect(); the earlier
\* call stays where it is, with the client and the AppDiscovery instance of
\* its tryConnect
OvertakeStart(host, port) ==
    /\ ~crashed
    /\ running.kind = "start"
    /\ running.phase = "wait"
    /\ overtaken = NoOvertaken
    /\ TryConnect(StartOf(host, port), TRUE)

\* stop() runs while a start() awaits connect(); start() goes on awaiting
StopDuring ==
    /\ ~crashed
    /\ running.kind = "start"
    /\ running.phase = "wait"
    /\ StopBody

\* 'open' of the client the overtaken start() awaits: connectToPort sets the
\* session in the _activeSessions of the instance it was called on, and
\* start() sets currentSession and returns
OvertakenOpen(c) ==
    /\ ~crashed
    /\ Quiet
    /\ overtaken.call.kind = "start"
    /\ c = overtaken.call.wait
    /\ clients[c].ws = "live"
    /\ clients' = [clients EXCEPT ![c].ws = "open", ![c].attempts = 0]
    /\ activeSessions' =
          IF overtaken.orphaned
          THEN activeSessions
          ELSE MapSet(activeSessions, <<clients[c].host, clients[c].port>>,
                      SessionInfo(clients[c].host, clients[c].port, c))
    /\ currentSession' = Session(clients[c].host, clients[c].port, c)
    /\ result' = Result("start", StartedText, AppName(clients[c].host, clients[c].port),
                        overtaken.call.host, overtaken.call.port, <<>>,
                        overtaken.call.met, overtaken.call.tried)
    /\ overtaken' = NoOvertaken
    /\ UNCHANGED <<env, appDiscovery, pluginClient, running, crashed, pluginVars>>

InterleavedNext ==
    \/ SessionNext
    \/ \E host \in HostArgs, port \in PortArgs : OvertakeStart(host, port)
    \/ StopDuring
    \/ \E c \in ClientIds : OvertakenOpen(c)

InterleavedSpec == SessionInit /\ [][InterleavedNext]_vars

InterleavedTypeOK ==
    /\ SessionTypeOK
    /\ overtaken.call.phase \in {"", "wait"}
    /\ overtaken.call.wait \in ClientIds \cup {0}
    /\ overtaken.call # Idle => clients[overtaken.call.wait].ws \in Kinds

(***************************************************************************)
(* The singleton specification: the accessor pair of plugin-client.ts,     *)
(* getPluginClient(host, port) with its arguments and resetPluginClient(), *)
(* driven by connectPlugin(host, port), status and stop().                 *)
(***************************************************************************)
\* host ?? getDefaultHost()
ResolvedHost(host) == IF host = NoHost THEN getDefaultHost ELSE host

\* port ?? getDefaultPort()
ResolvedPort(port) == IF port = NoPort THEN getDefaultPort ELSE port

\* the clients after getPluginClient(host, port)
WithSingletonAt(host, port) ==
    IF pluginClient # 0
    THEN clients
    ELSE [clients EXCEPT ![getPluginClient] =
             Client(ResolvedHost(host), ResolvedPort(port), "none", FALSE, 0)]

\* connectPlugin(host, port) up to its await; new WebSocket(url) throws on a
\* URL it does not accept, and connect() is rejected at once
ConnectPluginAt(host, port) ==
    /\ ~crashed
    /\ running = Idle
    /\ pluginClient # 0 \/ FreeIn(clients) # {}
    /\ pluginClient' = getPluginClient
    /\ LET c == getPluginClient
           client == WithSingletonAt(host, port)[getPluginClient]
       IN IF client.ws = "open"
          THEN /\ clients' = WithSingletonAt(host, port)
               /\ running' = Idle
               /\ result' = ConnectedResult(client)
          ELSE IF ~ValidURL(client.host, client.port)
          THEN /\ clients' = WithSingletonAt(host, port)
               /\ running' = Idle
               /\ result' = RejectedResult(client)
          ELSE /\ \E kind \in Kinds :
                     clients' = [WithSingletonAt(host, port) EXCEPT ![c].ws = kind]
               /\ running' = Call("connectPlugin", ResolvedHost(host), ResolvedPort(port),
                                  FALSE, 0, "wait", c, 0, 0, "", <<>>, <<>>, <<>>)
               /\ result' = NoResult
    /\ UNCHANGED <<env, overtaken, appDiscovery, activeSessions, currentSession,
                   crashed, pluginVars>>

SingletonNext ==
    \/ Status
    \/ Stop
    \/ \E host \in HostArgs, port \in PortArgs : ConnectPluginAt(host, port)
    \/ \E c \in ClientIds : ClientOpen(c)
    \/ \E c \in ClientIds : ClientRefused(c)
    \/ \E c \in ClientIds : ClientDrop(c)
    \/ \E c \in ClientIds : ClientTimer(c)

SingletonSpec == SessionInit /\ [][SingletonNext]_vars

SingletonTypeOK ==
    /\ SessionTypeOK
    /\ running.kind \in {"none", "stop", "connectPlugin"}
    /\ activeSessions = <<>>
    /\ currentSession = NoSession
    /\ pluginClient # 0 => clients[pluginClient].host \in Hosts

(***************************************************************************)
(* Claims about the session layer, checked under SessionSpec.              *)
(***************************************************************************)
\* the ports of a scan from base whose probes met a live endpoint, ascending
LivePorts(base, met) ==
    LET live == SelectSeq([i \in 1..Len(met) |-> i], LAMBDA i : met[i] = "live")
    IN [j \in 1..Len(live) |-> base + live[j] - 1]

\* C11: a scan of the port range probes the ports in ascending order and
\* comes back with exactly the live ones, ascending; getFirstAvailableApp
\* returns the lowest live port, or null when none is live.  The code does
\* not satisfy it: a port of the range that refuses the connection ends the
\* process in the middle of the scan.
C11_ScanReturnsLivePorts ==
    /\ running.kind = "discover" => ~crashed
    /\ result.call = "getFirstAvailableApp" =>
          /\ Len(result.met) = MaxPorts
          /\ result.apps = LivePorts(getDefaultPort, result.met)
          /\ result.port = IF \E i \in 1..MaxPorts : result.met[i] = "live"
                           THEN getDefaultPort - 1 +
                                Lowest({i \in 1..MaxPorts : result.met[i] = "live"})
                           ELSE 0

Loopback == {"localhost", "127.0.0.1"}

\* C12: start() with a configuredHost that is not a loopback name makes its
\* first attempt at localhost:configuredPort; when that endpoint is live (or
\* is already attached) the call returns there: the session recorded and
\* reported is at localhost, configuredHost was never tried and no scan ran.
C12_LocalhostFirst ==
    [][LET r == running
           attached == Result("start", StartedText, AppName("localhost", r.port),
                              r.host, r.port, <<>>, <<>>, <<<<"localhost", r.port>>>>)
       IN /\ ( /\ r.kind = "start"
               /\ r.host \notin Loopback
               /\ r.phase = "wait"
               /\ Len(r.tried) = 1
               /\ clients[r.wait].ws = "live"
               /\ running' # r )
             => /\ result' = attached
                /\ currentSession' = Session("localhost", r.port, r.wait)
                /\ running' = Idle
          /\ ( /\ r = Idle
               /\ result'.call = "start"
               /\ result'.host \notin Loopback
               /\ ValidURL(result'.host, result'.port) )
             => /\ result'.text = StartedText
                /\ result'.app = AppName("localhost", result'.port)
                /\ result'.tried = <<<<"localhost", result'.port>>>>
                /\ result'.met = <<>>
                /\ currentSession'.host = "localhost"
                /\ currentSession'.port = result'.port]_vars

\* start("10.0.0.5") with port 9223 has returned, attached to localhost:9223,
\* whose socket is open
C12_Witness ==
    /\ result.call = "start"
    /\ result.host = "10.0.0.5"
    /\ result.port = BasePort
    /\ result.text = StartedText
    /\ result.tried = <<<<"localhost", BasePort>>>>
    /\ currentSession = Session("localhost", BasePort, currentSession.client)
    /\ currentSession.client \in ClientIds
    /\ clients[currentSession.client].ws = "open"

\* C13: a start() whose port is explicit (argument passed or MCP_BRIDGE_PORT
\* set) and that finds no live endpoint comes back with the message that
\* names configuredHost:configuredPort and says auto-discovery is disabled,
\* leaves no current session, and tries no port but configuredPort.  The
\* code does not satisfy it: the first endpoint that refuses the connection
\* ends the process, and the call never returns.
C13_ExplicitPortFailure ==
    /\ (running.kind = "start" /\ running.explicit) =>
          /\ ~crashed
          /\ running.met = <<>>
          /\ \A i \in 1..Len(running.tried) : running.tried[i][2] = running.port
    /\ (result.call = "start" /\ result.text = ExplicitFailureText) =>
          /\ currentSession = NoSession
          /\ result.met = <<>>
          /\ \A i \in 1..Len(result.tried) : result.tried[i][2] = result.port

IsPrefix(s, t) == Len(s) <= Len(t) /\ \A i \in 1..Len(s) : s[i] = t[i]

\* the endpoints start() is to try, in order, for configuredHost host,
\* configuredPort port and portIsExplicit explicit, when its scan met met
StartOrder(host, port, explicit, met) ==
    LET first == IF host \in Loopback THEN <<>> ELSE << <<"localhost", port>> >>
        live == LivePorts(getDefaultPort, met)
        third == IF Len(met) = MaxPorts /\ live # <<>>
                 THEN << <<"localhost", live[1]>> >>
                 ELSE <<>>
    IN first \o << <<host, port>> >>
             \o (IF explicit THEN <<>> ELSE third \o << <<host, port>> >>)

\* C14: start() goes through its endpoints in a fixed order and stops at the
\* first that attaches: localhost:configuredPort unless configuredHost is a
\* loopback name, configuredHost:configuredPort, then, the port not being
\* explicit, the lowest live port of a scan of localhost and a last attempt
\* at configuredHost:configuredPort.  The code does not satisfy it: it never
\* gets past an endpoint that refuses the connection, the process ends there.
C14_FixedOrder ==
    /\ running.kind = "start" =>
          /\ ~crashed
          /\ IsPrefix(running.tried,
                      StartOrder(running.host, running.port, running.explicit, running.met))
          /\ running.met # <<>> =>
                /\ ~running.explicit
                /\ Len(running.tried) >= IF running.host \in Loopback THEN 1 ELSE 2
    /\ result.call = "start" =>
          /\ IsPrefix(result.tried,
                      StartOrder(result.host, result.port, FALSE, result.met))
          /\ result.text = StartedText =>
                result.app = AppName(result.tried[Len(result.tried)][1],
                                     result.tried[Len(result.tried)][2])
          /\ result.text = DegradedText =>
                result.tried = StartOrder(result.host, result.port, FALSE, result.met)
          /\ result.text = ExplicitFailureText =>
                result.tried = StartOrder(result.host, result.port, TRUE, result.met)

\* C15: start() does not throw because nothing could be attached: it always
\* returns, with the explicit-port failure message or, after a last attempt
\* at configuredHost:configuredPort, with the message of the degraded mode,
\* and the current session is null then.  The code does not satisfy it: an
\* endpoint that refuses the connection raises an exception no handler
\* catches, and the call in progress never returns.
C15_StartAlwaysReturns ==
    /\ crashed => running.kind # "start"
    /\ (result.call = "start" /\ result.text # StartedText) =>
          /\ result.text \in {ExplicitFailureText, DegradedText}
          /\ currentSession = NoSession
          /\ running = Idle
    /\ result.text = DegradedText =>
          result.tried[Len(result.tried)] = <<result.host, result.port>>

\* C16: stop() disconnects the client of every session the registry tracks
\* and empties the registry, discards the singleton client and clears the
\* current session; called when all of that is already so, it returns
\* normally and changes nothing, so that two calls in a row leave what one
\* call leaves.
C16_StopClearsAll ==
    [][result'.call = "stop" =>
          /\ result'.text = StoppedText
          /\ activeSessions' = <<>>
          /\ pluginClient' = 0
          /\ currentSession' = NoSession
          /\ \A sid \in DOMAIN activeSessions :
                clients'[activeSessions[sid].client].ws = "none"
          /\ pluginClient # 0 => clients'[pluginClient].ws = "none"
          /\ (activeSessions = <<>> /\ pluginClient = 0 /\ currentSession = NoSession) =>
                UNCHANGED <<env, overtaken, appDiscovery, activeSessions, clients, pluginClient,
                            currentSession, running, crashed>>]_vars

\* stop() has returned after start() had attached localhost:9223
C16_Witness ==
    /\ result.call = "stop"
    /\ result.app = AppName("localhost", BasePort)
    /\ appDiscovery = "localhost"
    /\ activeSessions = <<>>
    /\ currentSession = NoSession
    /\ pluginClient = 0

\* C17: status() only reads: it changes no state of the coordinator, of the
\* registry or of a client, the slot of the singleton client included.  The
\* code does not satisfy it: status() obtains the client to ask through
\* getPluginClient(), which creates the singleton when the slot is empty.
C17_StatusIsPure ==
    [][result'.call = "status" =>
          UNCHANGED <<env, overtaken, appDiscovery, activeSessions, clients, pluginClient,
                      currentSession, running, crashed>>]_vars

\* the connection start() attached for the current session is open
SessionOpen ==
    /\ currentSession # NoSession
    /\ clients[currentSession.client].ws = "open"

\* C18: status() reports connected, with the app, host and port of the
\* current session, exactly when there is a current session and the
\* connection attached for it is open, and the not-connected shape
\* otherwise.  The code does not satisfy it: status() asks the singleton
\* client, which is never the client start() attached.
C18_StatusReportsSession ==
    result.call = "status" =>
        result = IF SessionOpen THEN ConnectedStatus ELSE NotConnectedStatus

\* C19: once stop() has returned, the client the start() before it had
\* attached has no open socket, so that a sendCommand on it fails with the
\* not-connected error, and status() reports not connected for as long as
\* no start() has attached again.  The code does not satisfy it: the
\* disconnect() of stop() leaves a pending reconnect timer alone, and the
\* client reconnects by itself after the stop.
C19_StoppedStaysClosed ==
    /\ \A c \in ClientIds : clients[c].stopped => clients[c].ws # "open"
    /\ (result.call = "status" /\ currentSession = NoSession) =>
          result = NotConnectedStatus

\* C20: the coordinator holds one open connection at most: a start() that
\* attaches a connection has closed the one the start() before it had
\* attached.  The code does not satisfy it: start() resets the singleton
\* client, which is not the client a start() attaches, and the registry that
\* holds the attached client is dropped, not disconnected, when the host
\* changes.
C20_OneConnection ==
    [][( /\ result'.call = "start"
         /\ result'.text = StartedText
         /\ currentSession # NoSession
         /\ currentSession'.client # currentSession.client )
       => clients'[currentSession.client].ws # "open"]_vars

\* C21: the client a probe of the port scan creates is cleaned up when the
\* probe returns, whatever its outcome: a scan leaves no client with a
\* socket or a reconnect timer behind.  The code does not satisfy it: when
\* the 100 ms timer wins the race nothing disconnects the probe client, and
\* its socket goes on connecting.
C21_ProbesCleanedUp ==
    (running.kind = "discover" \/ result.call = "getFirstAvailableApp") =>
        \A c \in ClientIds :
            /\ clients[c].ws = "none"
            /\ ~clients[c].timer

\* C22: an 'error' event of a socket never leaves an exception uncaught,
\* whether or not the client was given a listener for 'error'.  The code
\* does not satisfy it: the handler re-emits the error on the client, and
\* emit throws when no listener is registered.
C22_ErrorNeverCrashes == ~crashed

\* a host variable is set: it holds a text that is not empty
HostIsSet(value) == value # NoHost /\ value # ""

\* C23: getDefaultHost() returns MCP_BRIDGE_HOST when that variable is set
\* (to a text that is not empty), otherwise TAURI_DEV_HOST when that one is
\* set, otherwise 'localhost'; the configured host of start(host) is the host
\* argument whenever one is passed, and that default only when none is.
C23_HostPrecedence ==
    [][LET default ==
               IF HostIsSet(env.MCP_BRIDGE_HOST) THEN env.MCP_BRIDGE_HOST
               ELSE IF HostIsSet(env.TAURI_DEV_HOST) THEN env.TAURI_DEV_HOST
               ELSE "localhost"
       IN /\ GetDefaultHost => result'.host = default
          /\ \A host \in ConfigHostArgs, port \in ConfigPortArgs :
                Configure(host, port) =>
                    running'.host = IF host # NoHost THEN host ELSE default]_vars

\* start() was called with no host while both variables were set to
\* different hosts, and resolved to MCP_BRIDGE_HOST
C23_Witness ==
    /\ HostIsSet(env.MCP_BRIDGE_HOST)
    /\ HostIsSet(env.TAURI_DEV_HOST)
    /\ env.MCP_BRIDGE_HOST # env.TAURI_DEV_HOST
    /\ running.kind = "start"
    /\ running.host = env.MCP_BRIDGE_HOST

\* MCP_BRIDGE_PORT is set: it holds a text that is not empty
PortIsSet(text) == text # Unset /\ text # <<>>

\* C24: getDefaultPort() returns MCP_BRIDGE_PORT parsed as a base-10 integer
\* when the variable is set (to a text that is not empty) and 9223 otherwise,
\* NaN and not 9223 when the text begins with no number; the configured port
\* of start(port) is the port argument whenever one is passed and that default
\* only when none is, and the port is explicit exactly when the argument is
\* passed or the variable is set.
C24_PortPrecedence ==
    [][LET default ==
               IF PortIsSet(env.MCP_BRIDGE_PORT) THEN parseInt(env.MCP_BRIDGE_PORT)
               ELSE BasePort
       IN /\ GetDefaultPort => result'.port = default
          /\ GetDefaultPort /\ env.MCP_BRIDGE_PORT = <<"i", "n", "v", "a", "l", "i", "d">>
                => result'.port = NaN
          /\ GetDefaultPort /\ env.MCP_BRIDGE_PORT = <<"9", "2", "2", "5">>
                => result'.port = 9225
          /\ \A host \in ConfigHostArgs, port \in ConfigPortArgs :
                Configure(host, port) =>
                    /\ running'.port = IF port # NoPort THEN port ELSE default
                    /\ running'.explicit = (port # NoPort \/ PortIsSet(env.MCP_BRIDGE_PORT))]_vars

\* start() was called with no port while MCP_BRIDGE_PORT held a text with no
\* number in it: the configured port is NaN and counts as explicit
C24_Witness ==
    /\ PortIsSet(env.MCP_BRIDGE_PORT)
    /\ running.kind = "start"
    /\ running.port = NaN
    /\ running.explicit

\* C25: automatic reconnection uses exponential backoff capped at 30 s and has
\* no fixed retry limit: every reconnect delay after the first is twice the
\* delay before it, or the cap, and a client whose socket closed unexpectedly
\* is never left with neither a socket nor a scheduled reconnect.
C25_ExponentialBackoff ==
    /\ \A k \in 2..Len(scheduled) :
          scheduled[k] = IF 2 * scheduled[k - 1] < 30000
                         THEN 2 * scheduled[k - 1]
                         ELSE 30000
    /\ ~(/\ scheduled # <<>>
         /\ reconnectTimers = <<>>
         /\ Live = {}
         /\ ~disconnected
         /\ ~crashed)

\* the entry of request id leaves the pending map in this step
Removed(id) == id \in DOMAIN pendingRequests /\ id \notin DOMAIN pendingRequests'

\* C26: the pending map holds an entry for a request id only while the promise
\* of that request is pending; the step that removes the entry (the matching
\* response, the timeout or the write failure, whichever comes first) settles
\* that promise and touches no other entry and no other promise; and an id
\* whose entry is gone never has an entry again, nor is its promise settled
\* again, whatever arrives for it later.
C26_RemovedOnce ==
    [][\A id \in DOMAIN calls' :
          /\ id \in DOMAIN pendingRequests' =>
                calls'[pendingRequests'[id]] = "pending"
          /\ Removed(id) =>
                /\ SettledNow(pendingRequests[id])
                /\ last'.call = pendingRequests[id]
                /\ \A other \in DOMAIN pendingRequests \ {id} :
                      /\ other \in DOMAIN pendingRequests'
                      /\ calls'[pendingRequests[other]] = calls[pendingRequests[other]]
          /\ (id \in DOMAIN calls /\ id \notin DOMAIN pendingRequests) =>
                /\ id \notin DOMAIN pendingRequests'
                /\ calls'[id] = calls[id]
                /\ last'.call # id
          /\ (id \in DOMAIN calls /\ SettledNow(id)) => Removed(RequestId(id))]_vars

\* the first of two requests was removed by its timeout while the second is
\* still in the map
C26_Witness ==
    /\ Len(calls) = 2
    /\ DOMAIN pendingRequests = {2}
    /\ calls[1] = "settled"
    /\ calls[2] = "pending"
    /\ last.call = 1
    /\ last.status = "rejected"

\* C27: every session the discovery registry holds with connected = true has
\* a client whose socket is open; and when start() has returned 'Session
\* started with app ...', the client of the session it returned has an open
\* socket: a session whose socket closed since it was registered is not
\* handed out as if it were live.
C27_RegisteredIsOpen ==
    /\ \A sid \in DOMAIN activeSessions :
          activeSessions[sid].connected =>
              clients[activeSessions[sid].client].ws = "open"
    /\ (result.call = "start" /\ result.text = StartedText) =>
          clients[currentSession.client].ws = "open"

\* C28: when stop() has returned, no client the session layer or one of its
\* AppDiscovery instances created has an open socket, a connecting socket or
\* a scheduled reconnect: not the clients of sessions attached by an earlier
\* start() to another host, nor the clients whose socket had closed before
\* stop() was called.
C28_StopLeavesNothing ==
    result.call = "stop" =>
        \A c \in ClientIds :
            /\ clients[c].ws = "none"
            /\ ~clients[c].timer

\* the sockets of the client that are connecting or open
InUse == {s \in Slots : sockets[s].state \in {"CONNECTING", "OPEN"}}

\* C29: a client has at most one socket that is connecting or open, and
\* this._ws designates it; the 'close' of a socket that this._ws no longer
\* designates neither clears this._ws nor schedules a reconnect.
C29_OneSocket ==
    [][/\ Cardinality(InUse') <= 1
       /\ InUse' \subseteq {ws'}
       /\ \A s \in Slots :
             (/\ sockets[s].state # "CLOSED"
              /\ sockets'[s].state = "CLOSED"
              /\ ws # 0
              /\ ws # s) =>
                 /\ ws' = ws
                 /\ reconnectTimers' = reconnectTimers]_vars

\* C30: a message of a socket whose text parses to a record is handled in
\* exactly one of two ways.  When its id is one of the pending map, the step
\* resolves the promise of that one request with the message and emits no
\* 'event'; otherwise (id absent or falsy, or not in the map) the step emits
\* 'event' once, with the message, and settles and removes nothing; only a
\* text that is no record is discarded.  When no listener is registered the
\* emitted message is dropped and the client is as it was.
C30_ResponseOrEvent ==
    [][/\ last'.op = "message" =>
             ~(Parses(last'.raw) /\ HasProperties(last'.raw))
       /\ (last'.op = "sendCommand" /\ last'.status = "resolved") =>
             /\ last'.value = JSONparse(last'.raw)
             /\ last'.value.id # 0
             /\ last'.value.id \in DOMAIN pendingRequests
             /\ last'.call = pendingRequests[last'.value.id]
             /\ SettledNow(last'.call)
             /\ \A c \in DOMAIN calls \ {last'.call} : calls'[c] = calls[c]
       /\ last'.op = "event" =>
             /\ last'.value = JSONparse(last'.raw)
             /\ last'.value.id = 0 \/ last'.value.id \notin DOMAIN pendingRequests
             /\ last'.status \in {"heard", "dropped"}
             /\ UNCHANGED <<calls, pendingRequests, requestTimers>>
             /\ last'.status = "dropped" =>
                   UNCHANGED <<ws, reconnectAttempts, sockets, reconnectTimers,
                               errorListener, crashed, scheduled, disconnected>>]_vars

\* a message with an id that is not in the map arrived while a request was
\* pending and no listener was registered: it was emitted and dropped
C30_Witness ==
    /\ last.op = "event"
    /\ last.status = "dropped"
    /\ last.value.id # 0
    /\ pendingRequests # <<>>
    /\ last.value.id \notin DOMAIN pendingRequests

\* the text of the message handled in this step carries the id of call c
Answers(c) ==
    /\ last'.raw # <<>>
    /\ last'.raw[1] = "object"
    /\ last'.raw[2] = RequestId(c)

\* C31: a response that arrives when its request has timed out (or has been
\* settled in any other way) is not delivered: the promise of that request
\* and of every other request stays as it is, no entry and no timer changes,
\* and the message is emitted as an 'event' like any message with an id the
\* map does not hold.  In particular so in the step that follows the timeout.
C31_LateResponse ==
    [][\A c \in DOMAIN calls :
          (calls[c] = "settled" /\ Answers(c)) =>
              /\ last'.op = "event"
              /\ last'.value = JSONparse(last'.raw)
              /\ last'.value.id = RequestId(c)
              /\ UNCHANGED <<calls, pendingRequests, requestTimers>>
              /\ (last = Rejected("sendCommand", c, "Request timeout after 5000ms")) =>
                     calls'[c] = "settled"]_vars

\* the answer to the first request came when that request was settled and
\* the second was still pending: it was emitted, and the second still waits
C31_Witness ==
    /\ Len(calls) = 2
    /\ calls[1] = "settled"
    /\ calls[2] = "pending"
    /\ DOMAIN pendingRequests = {2}
    /\ last.op = "event"
    /\ last.value.id = 1
    /\ last.value.success

\* the client in slot c is the client of a session of the registry reg
Recorded(reg, c) == \E sid \in DOMAIN reg : reg[sid].client = c

\* C32: when calls interleave at their await points, a client whose socket
\* opens for a start() that returns its session is recorded in the registry
\* of the current discovery instance, and a recorded client whose socket is
\* open is not overwritten in, or lost from, that registry while the
\* instance stays the current one.
C32_InterleavingKeepsRegistry ==
    [][/\ \A c \in ClientIds :
             (clients[c].ws # "open" /\ clients'[c].ws = "open"
                  /\ result'.text = StartedText)
                 => Recorded(activeSessions', c)
       /\ appDiscovery' = appDiscovery =>
             \A sid \in DOMAIN activeSessions :
                 clients'[activeSessions[sid].client].ws = "open" =>
                     /\ sid \in DOMAIN activeSessions'
                     /\ activeSessions'[sid].client = activeSessions[sid].client]_vars

\* the connect() that connectToPort awaits for start() fails in this step
ConnectToPortFails(c) ==
    /\ running.kind = "start"
    /\ Awaited(c)
    /\ clients[c].ws = "refused"
    /\ clients'[c].ws # "refused"

\* C33: when the connect() that connectToPort awaits fails, connectToPort
\* throws to its caller, which goes on, the registry is unchanged, and the
\* client connectToPort created is left with no socket and no reconnect
\* timer.  The code does not satisfy it: the failure ends the process, and
\* the close handler of the client schedules a reconnect.
C33_FailedConnectIsFinal ==
    [][\A c \in ClientIds :
          ConnectToPortFails(c) =>
              /\ ~crashed'
              /\ running' # running
              /\ activeSessions' = activeSessions
              /\ clients'[c].ws = "none"
              /\ ~clients'[c].timer]_vars

\* the promise of call c is rejected in this step by its timer or by the
\* callback of its write
RejectedAlone(c) ==
    /\ last'.op = "sendCommand"
    /\ last'.status = "rejected"
    /\ last'.call = c

\* C34: a timeout or a write failure of one request rejects the promise of
\* that request and removes its entry and its timer, and nothing else: every
\* other request keeps its promise as it was, its entry and its timer, and a
\* request in flight still has the entry that leads its response to it.
C34_RejectsOnlyOne ==
    [][\A c \in DOMAIN calls :
          RejectedAlone(c) =>
              /\ calls[c] = "pending"
              /\ calls'[c] = "settled"
              /\ RequestId(c) \notin DOMAIN pendingRequests'
              /\ RequestId(c) \notin DOMAIN requestTimers'
              /\ \A d \in DOMAIN calls \ {c} :
                    /\ calls'[d] = calls[d]
                    /\ RequestId(d) \in DOMAIN pendingRequests <=>
                          RequestId(d) \in DOMAIN pendingRequests'
                    /\ RequestId(d) \in DOMAIN requestTimers <=>
                          RequestId(d) \in DOMAIN requestTimers'
                    /\ RequestId(d) \in DOMAIN pendingRequests =>
                          /\ pendingRequests'[RequestId(d)] = d
                          /\ requestTimers'[RequestId(d)] = requestTimers[RequestId(d)]
                          /\ calls'[d] = "pending"]_vars

\* the write of the first of two requests failed; the second is in flight
\* with its entry and its timer
C34_Witness ==
    /\ last = Rejected("sendCommand", 1, WriteError)
    /\ Len(calls) = 2
    /\ calls[2] = "pending"
    /\ DOMAIN pendingRequests = {2}
    /\ pendingRequests[2] = 2
    /\ DOMAIN requestTimers = {2}

\* C35: a received text that is no JSON is discarded without a trace: the
\* step settles no promise and emits no 'event', the pending map, the timers
\* and the sockets are as they were and the process goes on; the response
\* that arrives right after it resolves the request it answers.
C35_MalformedDiscarded ==
    [][/\ last'.raw = Malformed =>
             /\ last'.op = "message"
             /\ last'.status = "discarded"
             /\ last'.value = NullMsg
             /\ ~crashed'
             /\ UNCHANGED <<calls, pendingRequests, requestTimers, sockets, ws,
                            reconnectAttempts, reconnectTimers>>
       /\ \A c \in DOMAIN calls :
             (/\ last.raw = Malformed
              /\ Answers(c)
              /\ RequestId(c) \in DOMAIN pendingRequests) =>
                 /\ last' = Resolved("sendCommand", c, JSONparse(last'.raw), last'.raw)
                 /\ calls'[c] = "settled"
                 /\ RequestId(c) \notin DOMAIN pendingRequests']_vars

\* text that is no JSON was discarded while a request was in flight on an
\* open socket
C35_Witness ==
    /\ last.op = "message"
    /\ last.raw = Malformed
    /\ SocketIsOpen
    /\ DOMAIN pendingRequests = {1}
    /\ calls[1] = "pending"

\* no reconnect was scheduled since the last socket opened, and no
\* disconnect() has set the counter to its maximum since
UntouchedSinceOpen ==
    /\ scheduled = <<>>
    /\ reconnectAttempts < maxReconnectAttempts

TimerArmed == Len(reconnectTimers') > Len(reconnectTimers)

ResetStep == pluginClient # 0 /\ (result'.call = "stop" \/ running'.kind = "stop")

\* getPluginClient() created the singleton in this step
CreatedStep == pluginClient = 0 /\ pluginClient' # 0

\* C38: the singleton stays the same client, with the host and the port it
\* was created with, through every call until resetPluginClient() runs; a
\* call that creates it creates it for the host and the port that call
\* resolved, unconnected, with no timer and a counter of 0; and
\* resetPluginClient(), which only stop() runs here, leaves the client it
\* discards without a socket and without a reconnect timer and the process
\* running.  The code does not satisfy the last part.
C38_SingletonAccessors ==
    [][/\ (pluginClient # 0 /\ ~ResetStep /\ ~crashed') =>
             /\ pluginClient' = pluginClient
             /\ clients'[pluginClient].host = clients[pluginClient].host
             /\ clients'[pluginClient].port = clients[pluginClient].port
       /\ CreatedStep =>
             /\ clients'[pluginClient'].ws # "open"
             /\ ~clients'[pluginClient'].timer
             /\ clients'[pluginClient'].attempts = 0
             /\ running'.kind = "connectPlugin" =>
                   /\ clients'[pluginClient'].host = running'.host
                   /\ clients'[pluginClient'].port = running'.port
       /\ ResetStep =>
             /\ ~crashed'
             /\ pluginClient' = 0
             /\ clients'[pluginClient].ws = "none"
             /\ ~clients'[pluginClient].timer]_vars

====
